---- MODULE Spec2Model ----
(***************************************************************************)
(* A model of MainApp (src/main.py): the score form, submitScores,         *)
(* calculateGrade, saveResults, clearFields and modifyCsvFile.             *)
(*                                                                         *)
(* A text (the content of a QLineEdit, a line of a file, a message) is a   *)
(* sequence of one-character strings; "sup2" stands for the single         *)
(* character U+00B2 (SUPERSCRIPT TWO).  A message may also hold its        *)
(* literal parts as whole chunks.  A file is the sequence of the lines     *)
(* appended to it during the session; it starts empty (open(path, "a")     *)
(* creates it), and opening and writing it are taken to succeed.           *)
(*                                                                         *)
(* An exception that leaves a handler uncaught ends the session (PyQt6     *)
(* aborts the application).                                                *)
(***************************************************************************)
EXTENDS Integers, Sequences, FiniteSets, TLC

VARIABLES
    score_inputs,   \* self.score_inputs: the texts of the score slots, in order
    studentName,    \* ui.lineEditStudentName.text()
    labelMessage,   \* ui.labelMessage.text()
    files,          \* path |-> the lines appended to that file
    scores,         \* the list last bound to `scores` in submitScores
    running,        \* FALSE once an exception has left a handler uncaught
    edits,          \* number of texts typed into the form so far
    accepted,       \* number of submitScores calls that reached saveResults
    lastSubmit,     \* how the last submitScores call ended
    score,          \* argument of the calculateGrade probe
    grade           \* result of the calculateGrade probe

vars == <<score_inputs, studentName, labelMessage, files, scores, running, edits,
          accepted, lastSubmit, score, grade>>

formVars == <<score_inputs, studentName, labelMessage, files, scores, running, edits,
              accepted, lastSubmit>>

(***************************************************************************)
(* Bounds of the model.                                                    *)
(***************************************************************************)
\* SpecForm: the forms submitted
MaxAttempts == 5
MaxFilled == 2
\* Spec: the session
MaxSlots == 1
MaxEdits == 2
\* both: lines per file
MaxLines == 2
MaxCsvLines == 1
\* SpecGrade: scores in -ScoreSpan..ScoreSpan
ScoreSpan == 130

(***************************************************************************)
(* Constants of the program.                                               *)
(***************************************************************************)
MinScore == 1
MaxScore == 100
PadWidth == 4
CsvPadWidth == 4
GradeA == 90
GradeB == 80
GradeC == 70
GradeD == 60

\* open("grades.txt", "a")
GradesPath == "grades.txt"

\* What the file dialog can return: "" when it is cancelled, else a file the
\* "CSV Files (*.csv)" filter shows, which grades.txt is not.
CsvPath == "out.csv"

DialogChoices == {"", CsvPath}

Paths == {GradesPath, CsvPath}

(***************************************************************************)
(* Texts the user can enter.                                               *)
(***************************************************************************)
DecimalChars == {"0", "1", "2", "3", "4", "5", "6", "7", "8", "9"}

\* Characters for which str.isdigit() is true: the decimal digits and the
\* digit-like characters such as U+00B2, which int() does not accept.
DigitChars == DecimalChars \cup {"sup2"}

Whitespace == {" "}

Texts ==
    { <<>>, <<"5", "0">>, <<"9", "5">>, <<"1">>, <<"1", "0", "0">>, <<"0">>,
      <<"1", "0", "1">>, <<"a", "b", "c">>, <<"-", "5">>, <<" ", "0", "7">>,
      <<"sup2">> }

\* The texts typed during a session (Spec).
SessionTexts == { <<>>, <<"5", "0">>, <<"1", "0", "1">>, <<"a", "b", "c">> }

Names == { <<>>, <<"A", "n", "n">> }

(***************************************************************************)
(* Python's built-in conversions, as far as the program uses them.         *)
(***************************************************************************)
DecVal(c) ==
    CASE c = "0" -> 0 [] c = "1" -> 1 [] c = "2" -> 2 [] c = "3" -> 3
      [] c = "4" -> 4 [] c = "5" -> 5 [] c = "6" -> 6 [] c = "7" -> 7
      [] c = "8" -> 8 [] c = "9" -> 9

DecChar(d) ==
    CASE d = 0 -> "0" [] d = 1 -> "1" [] d = 2 -> "2" [] d = 3 -> "3"
      [] d = 4 -> "4" [] d = 5 -> "5" [] d = 6 -> "6" [] d = 7 -> "7"
      [] d = 8 -> "8" [] d = 9 -> "9"

RECURSIVE LStrip(_)
LStrip(t) ==
    IF t # <<>> /\ Head(t) \in Whitespace THEN LStrip(Tail(t)) ELSE t

RECURSIVE RStrip(_)
RStrip(t) ==
    IF t # <<>> /\ t[Len(t)] \in Whitespace
        THEN RStrip(SubSeq(t, 1, Len(t) - 1))
        ELSE t

RECURSIVE DigitsValue(_, _)
DigitsValue(t, acc) ==
    IF t = <<>> THEN acc
    ELSE IF Head(t) = "_" THEN DigitsValue(Tail(t), acc)
    ELSE DigitsValue(Tail(t), 10 * acc + DecVal(Head(t)))

\* int(text): surrounding whitespace is dropped, one sign is allowed, then
\* decimal digits, single underscores allowed between digits.  ok = FALSE
\* stands for ValueError.
PyInt(t) ==
    LET s    == RStrip(LStrip(t))
        neg  == s # <<>> /\ Head(s) = "-"
        body == IF s # <<>> /\ Head(s) \in {"+", "-"} THEN Tail(s) ELSE s
        wellFormed ==
            /\ body # <<>>
            /\ \A k \in 1..Len(body) : body[k] \in DecimalChars \cup {"_"}
            /\ body[1] # "_"
            /\ body[Len(body)] # "_"
            /\ \A k \in 1..(Len(body) - 1) : ~(body[k] = "_" /\ body[k + 1] = "_")
    IN  IF wellFormed
            THEN [ok |-> TRUE,
                  val |-> IF neg THEN 0 - DigitsValue(body, 0) ELSE DigitsValue(body, 0)]
            ELSE [ok |-> FALSE, val |-> 0]

\* text.isdigit()
PyIsDigit(t) == t # <<>> /\ \A k \in 1..Len(t) : t[k] \in DigitChars

RECURSIVE NatStr(_)
NatStr(n) ==
    IF n < 10 THEN <<DecChar(n)>> ELSE NatStr(n \div 10) \o <<DecChar(n % 10)>>

\* str(n) of an int
PyStr(n) == IF n < 0 THEN <<"-">> \o NatStr(0 - n) ELSE NatStr(n)

\* sep.join(parts)
RECURSIVE Join(_, _)
Join(sep, parts) ==
    IF parts = <<>> THEN <<>>
    ELSE IF Len(parts) = 1 THEN parts[1]
    ELSE parts[1] \o sep \o Join(sep, Tail(parts))

\* max(list) of a non-empty list
RECURSIVE PyMax(_)
PyMax(s) ==
    IF Len(s) = 1 THEN s[1]
    ELSE LET m == PyMax(Tail(s)) IN IF s[1] >= m THEN s[1] ELSE m

\* [0] * n: the empty list when n <= 0
Zeros(n) == IF n <= 0 THEN <<>> ELSE [k \in 1..n |-> 0]

(***************************************************************************)
(* calculateGrade                                                          *)
(***************************************************************************)
\* calculateGrade with exclusive thresholds
calculateGradeStrict(s) ==
    IF s > GradeA THEN "A"
    ELSE IF s > GradeB THEN "B"
    ELSE IF s > GradeC THEN "C"
    ELSE IF s > GradeD THEN "D"
    ELSE "F"

calculateGrade(s) ==
    IF s >= GradeA THEN "A"
    ELSE IF s >= GradeB THEN "B"
    ELSE IF s >= GradeC THEN "C"
    ELSE IF s >= GradeD THEN "D"
    ELSE "F"


(***************************************************************************)
(* submitScores                                                            *)
(***************************************************************************)
\* scores kept from the call before
StaleScores == scores

\* scores = []
NewScores == <<>>

\* The loop without the return in its except branch: a rejected entry is
\* skipped and the loop goes on.
RECURSIVE ScoreLoopNoReturn(_, _, _)
ScoreLoopNoReturn(inputs, i, acc) ==
    IF i >= Len(inputs)
        THEN [ok |-> TRUE, scores |-> acc, index |-> i, raised |-> "none"]
    ELSE LET score_text == inputs[i + 1]
             parsed     == PyInt(score_text)
         IN  IF score_text # <<>>
                 THEN IF parsed.ok /\ parsed.val >= MinScore /\ parsed.val <= MaxScore
                          THEN ScoreLoopNoReturn(inputs, i + 1, Append(acc, parsed.val))
                          ELSE ScoreLoopNoReturn(inputs, i + 1, acc)
                 ELSE ScoreLoopNoReturn(inputs, i + 1, Append(acc, 0))

\* The loop over enumerate(self.score_inputs).  i is the 0-based index of
\* the entry looked at next, acc the list built so far.  A rejected entry
\* ends the loop: raised tells which statement raised the ValueError.
RECURSIVE ScoreLoop(_, _, _)
ScoreLoop(inputs, i, acc) ==
    IF i >= Len(inputs)
        THEN [ok |-> TRUE, scores |-> acc, index |-> i, raised |-> "none"]
    ELSE LET score_text == inputs[i + 1]
             parsed     == PyInt(score_text)
         IN  IF score_text # <<>>
                 THEN IF ~parsed.ok
                          THEN [ok |-> FALSE, scores |-> acc, index |-> i,
                                raised |-> "int"]
                      ELSE IF parsed.val < MinScore \/ parsed.val > MaxScore
                          THEN [ok |-> FALSE, scores |-> acc, index |-> i,
                                raised |-> "range"]
                      ELSE ScoreLoop(inputs, i + 1, Append(acc, parsed.val))
                 ELSE ScoreLoop(inputs, i + 1, Append(acc, 0))

\* final_score = scores[0] if scores else 0
FinalScoreFirst(sc) == IF sc # <<>> THEN sc[1] ELSE 0

\* final_score = max(scores) if scores else 0
FinalScore(sc) == IF sc # <<>> THEN PyMax(sc) ELSE 0

\* The message with the 0-based index
ErrorMessageZeroBased(i) ==
    <<"Invalid input for Score ">> \o PyStr(i)
        \o <<". Please enter a number between 1 and 100.">>

\* f"Invalid input for Score {i + 1}. Please enter a number between 1 and 100."
ErrorMessage(i) ==
    <<"Invalid input for Score ">> \o PyStr(i + 1)
        \o <<". Please enter a number between 1 and 100.">>

\* The message without the name
GradeMessageNoName(name, g) == <<"'s grade: ", g>>

\* f"{student_name}'s grade: {grade}"
GradeMessage(name, g) == name \o <<"'s grade: ", g>>

(***************************************************************************)
(* saveResults                                                             *)
(***************************************************************************)
\* Padding to the width, then cutting to it
PadScoresTruncating(sc) == SubSeq(sc \o Zeros(PadWidth - Len(sc)), 1, PadWidth)

\* scores += [0] * (4 - len(scores)), in place
PadScores(sc) == sc \o Zeros(PadWidth - Len(sc))

\* f"{name}\t{scores_str}\t{final_score}\n"
TabLine(name, sc, final_score) ==
    name \o <<"\t">> \o Join(<<"\t">>, [k \in 1..Len(sc) |-> PyStr(sc[k])])
         \o <<"\t">> \o PyStr(final_score) \o <<"\n">>

\* open(path, "w"): the file is emptied first
WriteLine(fs, path, line) == [fs EXCEPT ![path] = <<line>>]

\* with open(path, "a") as file: file.write(line)
AppendLine(fs, path, line) == [fs EXCEPT ![path] = Append(@, line)]

(***************************************************************************)
(* modifyCsvFile                                                           *)
(***************************************************************************)
\* [int(t) if t.isdigit() else 0 for t in texts]; ok = FALSE when an int()
\* call raises ValueError, which nothing catches.
CsvScores(inputs) ==
    LET conv(t) == IF PyIsDigit(t) THEN PyInt(t) ELSE [ok |-> TRUE, val |-> 0]
    IN  [ok     |-> \A k \in 1..Len(inputs) : conv(inputs[k]).ok,
         scores |-> [k \in 1..Len(inputs) |-> conv(inputs[k]).val]]

\* scores += [0] * (4 - len(scores))
CsvPadScores(sc) == sc \o Zeros(CsvPadWidth - Len(sc))

\* f"{student_name},{scores_str},{final_score}\n"
CsvLine(name, sc, final_score) ==
    name \o <<",">> \o Join(<<",">>, [k \in 1..Len(sc) |-> PyStr(sc[k])])
         \o <<",">> \o PyStr(final_score) \o <<"\n">>

\* The dialog's result ignored: the log is opened
OpenGradesPath(file_name) == GradesPath

\* open(file_name, "a")
OpenPath(file_name) == file_name

(***************************************************************************)
(* The state after MainApp.__init__                                        *)
(***************************************************************************)
\* lastSubmit: whether submitScores was called, how that call ended (and the
\* call before it), and whether the form is still as that call read it.
NoSubmit ==
    [called |-> FALSE, ok |-> FALSE, index |-> 0, raised |-> "none",
     beforeIndex |-> 0, beforeRaised |-> "none", untouched |-> FALSE]

Touched(ls) == [ls EXCEPT !.untouched = FALSE]

InitRest ==
    /\ labelMessage = <<>>
    /\ files = [p \in Paths |-> <<>>]
    /\ scores = <<>>
    /\ running = TRUE
    /\ edits = 0
    /\ accepted = 0
    /\ lastSubmit = NoSubmit

Init ==
    /\ score_inputs = <<>>
    /\ studentName = <<>>
    /\ InitRest
    /\ score = 0
    /\ grade = "none"

(***************************************************************************)
(* The handlers                                                            *)
(***************************************************************************)
\* spinBoxAttempts.valueChanged -> addInputBoxes: every slot is replaced by
\* a new, empty QLineEdit.
addInputBoxes(attempts) ==
    /\ running
    /\ attempts # Len(score_inputs)
    /\ score_inputs' = [k \in 1..attempts |-> <<>>]
    /\ lastSubmit' = Touched(lastSubmit)
    /\ UNCHANGED <<studentName, labelMessage, files, scores, running, edits,
                   accepted, score, grade>>

\* The user replaces the text of score slot i.
typeScore(i, text) ==
    /\ running
    /\ edits < MaxEdits
    /\ i \in 1..Len(score_inputs)
    /\ score_inputs[i] # text
    /\ score_inputs' = [score_inputs EXCEPT ![i] = text]
    /\ edits' = edits + 1
    /\ lastSubmit' = Touched(lastSubmit)
    /\ UNCHANGED <<studentName, labelMessage, files, scores, running, accepted,
                   score, grade>>

\* The user replaces the student name; it counts as an edit too.
typeName(name) ==
    /\ running
    /\ edits < MaxEdits
    /\ studentName # name
    /\ studentName' = name
    /\ edits' = edits + 1
    /\ lastSubmit' = Touched(lastSubmit)
    /\ UNCHANGED <<score_inputs, labelMessage, files, scores, running, accepted,
                   score, grade>>

submitScores ==
    /\ running
    /\ Len(files[GradesPath]) < MaxLines
    /\ LET student_name == studentName
           r            == ScoreLoop(score_inputs, 0, NewScores)
           final_score  == FinalScore(r.scores)
           g            == calculateGrade(final_score)
           padded       == PadScores(r.scores)
           line         == TabLine(student_name, padded, final_score)
       IN  /\ IF r.ok
                  THEN /\ labelMessage' = GradeMessage(student_name, g)
                       /\ scores' = padded
                       /\ files' = AppendLine(files, GradesPath, line)
                       /\ accepted' = accepted + 1
                  ELSE /\ labelMessage' = ErrorMessage(r.index)
                       /\ scores' = r.scores
                       /\ UNCHANGED <<files, accepted>>
           /\ lastSubmit' =
                  [called |-> TRUE, ok |-> r.ok, index |-> r.index, raised |-> r.raised,
                   beforeIndex |-> lastSubmit.index, beforeRaised |-> lastSubmit.raised,
                   untouched |-> TRUE]
    /\ UNCHANGED <<score_inputs, studentName, running, edits, score, grade>>

clearFields ==
    /\ running
    /\ studentName' = <<>>
    /\ score_inputs' = [k \in 1..Len(score_inputs) |-> <<>>]
    /\ labelMessage' = <<>>
    /\ lastSubmit' = Touched(lastSubmit)
    /\ UNCHANGED <<files, scores, running, edits, accepted, score, grade>>

\* file_name is the path the dialog returned, "" when it was cancelled.
modifyCsvFile(file_name) ==
    /\ running
    /\ Len(files[CsvPath]) < MaxCsvLines
    /\ IF file_name = ""
           THEN UNCHANGED <<files, running>>
           ELSE LET student_name == studentName
                    c            == CsvScores(score_inputs)
                    padded       == CsvPadScores(c.scores)
                    final_score  == PyMax(padded)
                IN  IF c.ok
                        THEN /\ files' = AppendLine(files, OpenPath(file_name),
                                                    CsvLine(student_name, padded, final_score))
                             /\ UNCHANGED running
                        ELSE /\ running' = FALSE
                             /\ UNCHANGED files
    /\ UNCHANGED <<score_inputs, studentName, labelMessage, scores, edits, accepted,
                   lastSubmit, score, grade>>

(***************************************************************************)
(* Spec: a session, from the window's construction on                      *)
(***************************************************************************)
Next ==
    \/ \E attempts \in 0..MaxSlots : addInputBoxes(attempts)
    \/ \E i \in 1..MaxSlots, text \in SessionTexts : typeScore(i, text)
    \/ \E name \in Names : typeName(name)
    \/ submitScores
    \/ clearFields
    \/ \E file_name \in DialogChoices : modifyCsvFile(file_name)

Spec == Init /\ [][Next]_vars

(***************************************************************************)
(* SpecForm: the two handlers that write a file, on every form of up to    *)
(* MaxAttempts slots of which at most MaxFilled hold a text                *)
(***************************************************************************)
Forms(n) ==
    { [k \in 1..n |-> IF k \in DOMAIN g THEN g[k] ELSE <<>>] :
        g \in UNION { [S -> Texts \ {<<>>}] :
                        S \in { T \in SUBSET (1..n) : Cardinality(T) <= MaxFilled } } }

InitForm ==
    /\ \E n \in 0..MaxAttempts : score_inputs \in Forms(n)
    /\ studentName \in Names
    /\ InitRest
    /\ score = 0
    /\ grade = "none"

NextForm ==
    \/ submitScores
    \/ \E file_name \in DialogChoices : modifyCsvFile(file_name)

SpecForm == InitForm /\ [][NextForm]_vars

(***************************************************************************)
(* SpecGrade: calculateGrade on its own, on integers on both sides of      *)
(* 0..100                                                                  *)
(***************************************************************************)
InitGrade ==
    /\ score_inputs = <<>>
    /\ studentName = <<>>
    /\ InitRest
    /\ score \in (0 - ScoreSpan)..ScoreSpan
    /\ grade = "none"

applyGrade ==
    /\ grade = "none"
    /\ grade' = calculateGrade(score)
    /\ UNCHANGED <<score, formVars>>

SpecGrade == InitGrade /\ [][applyGrade]_vars

(***************************************************************************)
(* Vocabulary of the properties                                            *)
(***************************************************************************)
\* A score entry submitScores must reject: not empty, and not an integer in 1..100.
Rejectable(t) == t # <<>> /\ ~(PyInt(t).ok /\ PyInt(t).val \in 1..100)

HasRejectable(inputs) == \E k \in 1..Len(inputs) : Rejectable(inputs[k])

\* 1-based index of the first such entry
FirstRejectable(inputs) ==
    CHOOSE k \in 1..Len(inputs) :
        Rejectable(inputs[k]) /\ \A j \in 1..(k - 1) : ~Rejectable(inputs[j])

\* The score an accepted entry stands for
EntryValue(t) == IF t = <<>> THEN 0 ELSE PyInt(t).val

MaxOf(S) == CHOOSE m \in S : \A x \in S : x <= m

Last(q) == q[Len(q)]

ErrorText(k) ==
    <<"Invalid input for Score ">> \o PyStr(k)
        \o <<". Please enter a number between 1 and 100.">>

\* The fields of t between the separators sep: cur is the field being read,
\* done the fields read so far
RECURSIVE SplitFrom(_, _, _, _)
SplitFrom(t, sep, cur, done) ==
    IF t = <<>> THEN Append(done, cur)
    ELSE IF Head(t) = sep THEN SplitFrom(Tail(t), sep, <<>>, Append(done, cur))
    ELSE SplitFrom(Tail(t), sep, Append(cur, Head(t)), done)

Split(t, sep) == SplitFrom(t, sep, <<>>, <<>>)

\* The number a field of decimal digits denotes, -1 for any other field
FieldValue(f) ==
    IF f # <<>> /\ \A k \in 1..Len(f) : f[k] \in DecimalChars
        THEN DigitsValue(f, 0)
        ELSE 0 - 1

\* line is name, sep, fields joined by sep, newline
Framed(line, name, sep) ==
    /\ Len(line) >= Len(name) + 2
    /\ SubSeq(line, 1, Len(name)) = name
    /\ line[Len(name) + 1] = sep
    /\ line[Len(line)] = "\n"
    /\ \A k \in 1..(Len(line) - 1) : line[k] # "\n"

\* the fields after the name: the score fields, then the final score
FieldsOf(line, name, sep) == Split(SubSeq(line, Len(name) + 2, Len(line) - 1), sep)

\* fields are score fields and a final field that is their maximum
FinalIsMaximum(fields) ==
    /\ Len(fields) >= 2
    /\ \A k \in 1..Len(fields) : FieldValue(fields[k]) >= 0
    /\ \A k \in 1..(Len(fields) - 1) : FieldValue(fields[k]) <= FieldValue(Last(fields))
    /\ \E k \in 1..(Len(fields) - 1) : FieldValue(fields[k]) = FieldValue(Last(fields))

Front(q) == SubSeq(q, 1, Len(q) - 1)

grades_txt == files[GradesPath]

csv_file == files[CsvPath]

Separator(p) == IF p = GradesPath THEN "\t" ELSE ","

(***************************************************************************)
(* C1: for every integer s, calculateGrade(s) is A if s >= 90, B if        *)
(* 80 <= s <= 89, C if 70 <= s <= 79, D if 60 <= s <= 69 and F if s <= 59, *)
(* negative s and s > 100 included.                                        *)
(***************************************************************************)
C1_GradeBands ==
    grade # "none" =>
        /\ score >= 90 => grade = "A"
        /\ (80 <= score /\ score <= 89) => grade = "B"
        /\ (70 <= score /\ score <= 79) => grade = "C"
        /\ (60 <= score /\ score <= 69) => grade = "D"
        /\ score <= 59 => grade = "F"

C1_Witness == score < 0 /\ grade = "F"

(***************************************************************************)
(* C2: a submitScores call that meets a rejectable entry appends nothing   *)
(* to any file, stops at that entry (scores holds the entries before it    *)
(* and no more), and shows the message naming the 1-based index of the     *)
(* first rejectable entry.                                                 *)
(***************************************************************************)
C2_RejectedSubmission ==
    [][ (submitScores /\ HasRejectable(score_inputs)) =>
            LET k == FirstRejectable(score_inputs)
            IN  /\ files' = files
                /\ accepted' = accepted
                /\ labelMessage' = ErrorText(k)
                /\ scores' = [j \in 1..(k - 1) |-> EntryValue(score_inputs[j])] ]_vars

C2_Witness ==
    /\ score_inputs = << <<"5", "0">>, <<>>, <<"1", "0", "1">> >>
    /\ labelMessage = ErrorText(3)
    /\ scores = <<50, 0>>
    /\ grades_txt = <<>>

(***************************************************************************)
(* C3: in every line submitScores or modifyCsvFile appends, the final      *)
(* field is the maximum of the score fields of that line, and it is 0      *)
(* when the form has no score slot.                                        *)
(***************************************************************************)
C3_FinalIsMaximum ==
    [][ \A p \in Paths :
            files'[p] # files[p] =>
                /\ Framed(Last(files'[p]), studentName, Separator(p))
                /\ \E fields \in {FieldsOf(Last(files'[p]), studentName, Separator(p))} :
                       /\ FinalIsMaximum(fields)
                       /\ Len(score_inputs) = 0 => Last(fields) = <<"0">> ]_vars

C3_Witness ==
    /\ grades_txt # <<>>
    /\ csv_file # <<>>
    /\ score_inputs = << <<"5", "0">>, <<"9", "5">> >>
    /\ FieldValue(Last(FieldsOf(Last(grades_txt), studentName, "\t"))) = 95
    /\ FieldValue(Last(FieldsOf(Last(csv_file), studentName, ","))) = 95

(***************************************************************************)
(* C4: an accepted submitScores call with n slots appends to grades.txt    *)
(* the name, max(4, n) score fields and the final score, tab-separated     *)
(* and newline-terminated; the first n score fields are the entries in     *)
(* order (an empty one as 0), then 4 - n zeros when n < 4; nothing is cut  *)
(* off when n > 4.                                                         *)
(***************************************************************************)
C4_TabRecord ==
    [][ (submitScores /\ ~HasRejectable(score_inputs)) =>
            /\ Len(files'[GradesPath]) = Len(files[GradesPath]) + 1
            /\ Front(files'[GradesPath]) = files[GradesPath]
            /\ Framed(Last(files'[GradesPath]), studentName, "\t")
            /\ \E fields \in {FieldsOf(Last(files'[GradesPath]), studentName, "\t")} :
                   LET n     == Len(score_inputs)
                       width == IF n > 4 THEN n ELSE 4
                   IN  /\ Len(fields) = width + 1
                       /\ \A k \in 1..n :
                              /\ FieldValue(fields[k]) = EntryValue(score_inputs[k])
                              /\ score_inputs[k] # <<>> => FieldValue(fields[k]) \in 1..100
                       /\ \A k \in (n + 1)..4 : fields[k] = <<"0">>
                       /\ FieldValue(fields[width + 1]) >= 0 ]_vars

C4_Witness ==
    /\ Len(score_inputs) = 5
    /\ score_inputs[5] = <<"9", "5">>
    /\ score_inputs[1] = <<" ", "0", "7">>
    /\ grades_txt = << studentName \o <<"\t", "7", "\t", "0", "\t", "0", "\t", "0", "\t",
                                         "9", "5", "\t", "9", "5", "\n">> >>

(***************************************************************************)
(* C5, as stated: a validation failure carries a reason that tells a text  *)
(* that is not an integer from an integer outside 1..100, so two           *)
(* rejections with different causes never show the same message.           *)
(***************************************************************************)
C5_ReasonDistinguishesCause ==
    [][ ( /\ submitScores
          /\ lastSubmit.called /\ ~lastSubmit.ok /\ labelMessage # <<>>
          /\ ~lastSubmit'.ok
          /\ lastSubmit'.raised # lastSubmit.raised )
        => labelMessage' # labelMessage ]_vars

(***************************************************************************)
(* C5, amended: a validation failure carries the 1-based index of the      *)
(* rejected entry and no reason; a text that is not an integer and an      *)
(* integer outside 1..100 at the same index give the same message.         *)
(***************************************************************************)
C5_MessageCarriesIndexOnly ==
    [][ (submitScores /\ ~lastSubmit'.ok) =>
            /\ lastSubmit'.raised \in {"int", "range"}
            /\ lastSubmit'.raised = "int" <=>
                   ~PyInt(score_inputs[lastSubmit'.index + 1]).ok
            /\ labelMessage' = ErrorText(lastSubmit'.index + 1)
            /\ ( /\ lastSubmit.called /\ ~lastSubmit.ok /\ labelMessage # <<>>
                 /\ lastSubmit.index = lastSubmit'.index )
               => labelMessage' = labelMessage ]_vars

C5_Witness ==
    /\ lastSubmit.called /\ ~lastSubmit.ok
    /\ lastSubmit.raised = "range" /\ lastSubmit.beforeRaised = "int"
    /\ lastSubmit.index = lastSubmit.beforeIndex
    /\ score_inputs = << <<"1", "0", "1">> >>
    /\ labelMessage = ErrorText(1)

(***************************************************************************)
(* C6: modifyCsvFile with a chosen file never rejects: whatever the score  *)
(* slots hold, it raises nothing and appends exactly one comma-separated   *)
(* line to the chosen file, with 0 for every slot whose text is not all    *)
(* digits.                                                                 *)
(***************************************************************************)
C6_CsvNeverRejects ==
    [][ \A file_name \in DialogChoices \ {""} :
            modifyCsvFile(file_name) =>
                /\ running'
                /\ Len(files'[file_name]) = Len(files[file_name]) + 1
                /\ Front(files'[file_name]) = files[file_name]
                /\ Framed(Last(files'[file_name]), studentName, ",")
                /\ \E fields \in {FieldsOf(Last(files'[file_name]), studentName, ",")} :
                       \A k \in 1..Len(score_inputs) :
                           ~PyIsDigit(score_inputs[k]) => fields[k] = <<"0">> ]_vars

C8_SameInputsSameOutcome ==
    [][ submitScores =>
            /\ score_inputs' = score_inputs
            /\ studentName' = studentName
            /\ lastSubmit.untouched =>
                   /\ labelMessage' = labelMessage
                   /\ lastSubmit'.ok = lastSubmit.ok
                   /\ IF lastSubmit.ok
                          THEN files'[GradesPath] =
                                   Append(files[GradesPath], Last(files[GradesPath]))
                          ELSE files' = files ]_vars

C8_Witness ==
    /\ lastSubmit.untouched
    /\ Len(score_inputs) < PadWidth
    /\ score_inputs # <<>> /\ score_inputs[1] # <<>>
    /\ Len(grades_txt) = 2
    /\ grades_txt[1] = grades_txt[2]

(***************************************************************************)
(* C9: after submitScores the message is "{name}'s grade: {grade}", grade  *)
(* being calculateGrade of the maximum of the scores (0 without slots,     *)
(* hence F), exactly when the call appended a line to grades.txt;          *)
(* otherwise it is the error message naming the rejected entry and         *)
(* nothing was appended.                                                   *)
(***************************************************************************)
C9_MessageForms ==
    [][ submitScores =>
            IF HasRejectable(score_inputs)
                THEN /\ labelMessage' = ErrorText(FirstRejectable(score_inputs))
                     /\ files' = files
                ELSE /\ labelMessage' =
                            studentName \o
                            <<"'s grade: ",
                              calculateGrade(MaxOf({0} \cup {EntryValue(score_inputs[k]) :
                                                               k \in 1..Len(score_inputs)}))>>
                     /\ Len(files'[GradesPath]) = Len(files[GradesPath]) + 1
                     /\ Len(score_inputs) = 0 => Last(labelMessage') = "F" ]_vars

C9_Witness ==
    /\ studentName = <<"A", "n", "n">>
    /\ score_inputs = << <<"5", "0">>, <<"9", "5">> >>
    /\ labelMessage = <<"A", "n", "n", "'s grade: ", "A">>
    /\ Len(grades_txt) = 1

====
